---- MODULE Spec2Model ----
(***************************************************************************)
(* A model of mist-adopt.py: the batch job that reads a table of devices,  *)
(* fetches an adoption command blob per device from the Mist cloud API and *)
(* pushes it to the device over NETCONF from a bounded thread pool.        *)
(*                                                                         *)
(* Python strings are modelled as sequences of one-character strings, so   *)
(* that concatenation, indexing, splitting and comparison are computed as  *)
(* Python computes them.  Python index k is TLA+ index k+1.                *)
(***************************************************************************)
EXTENDS Integers, Sequences, FiniteSets, TLC

(***************************************************************************)
(* Bounds of the model.                                                    *)
(***************************************************************************)
\* the longest input table, in rows
MaxRows == 3
\* the largest value of --max-threads
MaxThreads == 2

(***************************************************************************)
(* String literals of the program and sample texts of its environment.     *)
(***************************************************************************)
\* 'Failed to fetch adoption command from MIST API: ' (line 62)
FetchFailPrefix ==
  <<"F","a","i","l","e","d"," ","t","o"," ","f","e","t","c","h"," ","a","d",
    "o","p","t","i","o","n"," ","c","o","m","m","a","n","d"," ","f","r","o",
    "m"," ","M","I","S","T"," ","A","P","I",":"," ">>

\* 'Error: ' (lines 140, 172)
ErrorPrefix ==
  <<"E","r","r","o","r",":"," ">>

\* 'Error: Commit failed' (line 108)
CommitFailedMsg ==
  <<"E","r","r","o","r",":"," ","C","o","m","m","i","t"," ","f","a","i","l",
    "e","d">>

\* 'Error: Unable to establish NETCONF connection with ' (line 110)
PushFailPrefix ==
  <<"E","r","r","o","r",":"," ","U","n","a","b","l","e"," ","t","o"," ","e",
    "s","t","a","b","l","i","s","h"," ","N","E","T","C","O","N","F"," ","c",
    "o","n","n","e","c","t","i","o","n"," ","w","i","t","h"," ">>

\* '. Reason: ' (line 110)
ReasonInfix ==
  <<"."," ","R","e","a","s","o","n",":"," ">>

\* 'OK' (line 106)
OkMsg ==
  <<"O","K">>

\* 'https://api.mist.com/api/v1' (line 43)
BaseUrl ==
  <<"h","t","t","p","s",":","/","/","a","p","i",".","m","i","s","t",".","c",
    "o","m","/","a","p","i","/","v","1">>

\* '/orgs/' (line 44)
OrgsPath ==
  <<"/","o","r","g","s","/">>

\* '/ocdevices/outbound_ssh_cmd' (line 44)
CmdPath ==
  <<"/","o","c","d","e","v","i","c","e","s","/","o","u","t","b","o","u","n",
    "d","_","s","s","h","_","c","m","d">>

\* '?site_id=' (line 47)
SiteQuery ==
  <<"?","s","i","t","e","_","i","d","=">>

\* 'Token ' (line 51)
TokenPrefix ==
  <<"T","o","k","e","n"," ">>

\* 'delete system phone-home' (line 59)
PhoneHome ==
  <<"d","e","l","e","t","e"," ","s","y","s","t","e","m"," ","p","h","o","n",
    "e","-","h","o","m","e">>

\* ': ' (line 176)
ColonSpace ==
  <<":"," ">>

\* 'Error: file ' (line 33)
DumpNotFoundPrefix ==
  <<"E","r","r","o","r",":"," ","f","i","l","e"," ">>

\* ' not found' (line 33)
DumpNotFoundSuffix ==
  <<" ","n","o","t"," ","f","o","u","n","d">>

\* "Error: Cannot open file '" (line 137)
CannotOpenPrefix ==
  <<"E","r","r","o","r",":"," ","C","a","n","n","o","t"," ","o","p","e","n",
    " ","f","i","l","e"," ","'">>

\* "'. Please check the file path." (line 137)
CannotOpenSuffix ==
  <<"'","."," ","P","l","e","a","s","e"," ","c","h","e","c","k"," ","t","h",
    "e"," ","f","i","l","e"," ","p","a","t","h",".">>

\* 'Error: Invalid Excel file format. Required fields: ...' (line 145); the
\* names are joined in the order a Python set yields them, shown here in the
\* order of line 143
InvalidFormatMsg ==
  <<"E","r","r","o","r",":"," ","I","n","v","a","l","i","d"," ","E","x","c",
    "e","l"," ","f","i","l","e"," ","f","o","r","m","a","t","."," ","R","e",
    "q","u","i","r","e","d"," ","f","i","e","l","d","s",":"," ","o","r","g",
    "_","i","d",","," ","s","i","t","e","_","i","d",","," ","i","p",","," ",
    "u","s","e","r","_","i","d",","," ","p","a","s","s","w","o","r","d">>

\* 'Error: Mist API key not found in environment variable, config file, or CLI option.' (line 158)
NoKeyMsg ==
  <<"E","r","r","o","r",":"," ","M","i","s","t"," ","A","P","I"," ","k","e",
    "y"," ","n","o","t"," ","f","o","u","n","d"," ","i","n"," ","e","n","v",
    "i","r","o","n","m","e","n","t"," ","v","a","r","i","a","b","l","e",",",
    " ","c","o","n","f","i","g"," ","f","i","l","e",","," ","o","r"," ","C",
    "L","I"," ","o","p","t","i","o","n",".">>

\* 'd.xlsx' (args.excel_file, line 125)
FileName ==
  <<"d",".","x","l","s","x">>

\* 'too many values to unpack (expected 5)' (str(ValueError) of the unpacking at line 114)
UnpackErrText ==
  <<"t","o","o"," ","m","a","n","y"," ","v","a","l","u","e","s"," ","t","o",
    " ","u","n","p","a","c","k"," ","(","e","x","p","e","c","t","e","d"," ",
    "5",")">>

\* "Index(['ip'], dtype='object')" (str(KeyError) of drop_duplicates at line 39)
NoIpColumnText ==
  <<"I","n","d","e","x","(","[","'","i","p","'","]",","," ","d","t","y","p",
    "e","=","'","o","b","j","e","c","t","'",")">>

\* 'File is not a zip file' (str(e) of a failed pd.read_excel at line 38)
BadFileText ==
  <<"F","i","l","e"," ","i","s"," ","n","o","t"," ","a"," ","z","i","p"," ",
    "f","i","l","e">>

\* 'timed out' (str(e) of a failed requests.get at line 54)
NetErrText ==
  <<"t","i","m","e","d"," ","o","u","t">>

\* 'Expecting value: line 1 column 1 (char 0)' (str(e) of a failed response.json() at line 57)
JsonErrText ==
  <<"E","x","p","e","c","t","i","n","g"," ","v","a","l","u","e",":"," ","l",
    "i","n","e"," ","1"," ","c","o","l","u","m","n"," ","1"," ","(","c","h",
    "a","r"," ","0",")">>

\* 'Forbidden' (response.text of a non-200 response, line 62)
HttpErrBody ==
  <<"F","o","r","b","i","d","d","e","n">>

\* 'rpc failed' (str(e) of an exception raised at lines 90-103)
RpcErrText ==
  <<"r","p","c"," ","f","a","i","l","e","d">>

\* 'set a\ndelete system phone-home\nset b' (response.json()['cmd'], line 57)
BlobFull ==
  <<"s","e","t"," ","a","\n","d","e","l","e","t","e"," ","s","y","s","t",
    "e","m"," ","p","h","o","n","e","-","h","o","m","e","\n","s","e","t",
    " ","b">>

\* '' (response.json()['cmd'], line 57)
BlobEmpty ==
  <<>>

\* 'kE' (os.environ['MIST_API_KEY'], line 68)
KeyEnv ==
  <<"k","E">>

\* 'kC' (config['Mist']['api_key'], line 80)
KeyCfg ==
  <<"k","C">>

\* 'kA' (args.api_key, line 128)
KeyCli ==
  <<"k","A">>

\* 'r10' (a value of column ip)
AddrA ==
  <<"r","1","0">>

\* 'r2' (a value of column ip)
AddrB ==
  <<"r","2">>

\* 'o1' (a value of column org_id)
Org1 ==
  <<"o","1">>

\* 'o2' (a value of column org_id)
Org2 ==
  <<"o","2">>

\* 's1' (a value of column site_id)
Site1 ==
  <<"s","1">>

\* 'u1' (a value of column user_id)
User1 ==
  <<"u","1">>

\* 'u2' (a value of column user_id)
User2 ==
  <<"u","2">>

\* 'p1' (a value of column password)
Pass1 ==
  <<"p","1">>

\* 'p2' (a value of column password)
Pass2 ==
  <<"p","2">>

\* 'x' (a value of an additional column)
NoteX ==
  <<"x">>

(***************************************************************************)
(* Generic helpers.                                                        *)
(***************************************************************************)
SeqsUpTo(S, n) == UNION {[1..k -> S] : k \in 0..n}

Range(s) == {s[i] : i \in 1..Len(s)}

\* ord() of the characters that occur in addresses
CodePoint(c) ==
  CASE c = "." -> 46
    [] c = "0" -> 48
    [] c = "1" -> 49
    [] c = "2" -> 50
    [] c = "r" -> 114
    [] OTHER -> 0

\* a < b for two Python strings (comparison by code point, then by length)
RECURSIVE StrLess(_, _)
StrLess(a, b) ==
  IF b = <<>> THEN FALSE
  ELSE IF a = <<>> THEN TRUE
  ELSE IF CodePoint(Head(a)) # CodePoint(Head(b))
       THEN CodePoint(Head(a)) < CodePoint(Head(b))
  ELSE StrLess(Tail(a), Tail(b))

\* needle in hay, for Python strings
IsPrefix(p, s) == Len(p) <= Len(s) /\ SubSeq(s, 1, Len(p)) = p

Contains(hay, needle) ==
  \E i \in 0..(Len(hay) - Len(needle)) :
     SubSeq(hay, i + 1, i + Len(needle)) = needle

\* s.split("\n"): the pieces between the newlines of s, always at least one
Split(s) ==
  LET nl == {i \in 1..Len(s) : s[i] = "\n"}
      n  == Cardinality(nl)
      \* where the k-th newline is; 0 and Len(s) + 1 stand for the two ends
      At(k) == IF k = 0 THEN 0
               ELSE IF k = n + 1 THEN Len(s) + 1
               ELSE CHOOSE i \in nl : Cardinality({j \in nl : j < i}) = k - 1
  IN  [k \in 1..(n + 1) |-> SubSeq(s, At(k - 1) + 1, At(k) - 1)]

\* "\n".join(lines)
RECURSIVE Join(_)
Join(lines) ==
  IF lines = <<>> THEN <<>>
  ELSE IF Len(lines) = 1 THEN lines[1]
  ELSE lines[1] \o <<"\n">> \o Join(Tail(lines))

(***************************************************************************)
(* The input table (a pandas DataFrame): column names and rows of cells.   *)
(***************************************************************************)
\* a blank cell, which pandas reads as NaN
NaN == <<"nan">>

required_fields == {"org_id", "site_id", "ip", "user_id", "password"}

\* column layouts of the input file
ColsCanonical == <<"org_id", "site_id", "ip", "user_id", "password">>
ColsSwapped   == <<"ip", "site_id", "org_id", "user_id", "password">>
ColsExtra     == <<"org_id", "site_id", "ip", "user_id", "password", "note">>
ColsNoPass    == <<"org_id", "site_id", "ip", "user_id">>
ColsNoIp      == <<"org_id", "site_id", "user_id", "password">>

Layouts == {ColsCanonical, ColsSwapped, ColsExtra, ColsNoPass, ColsNoIp}

Addrs == {AddrA, AddrB}

\* the cells of one input row, by column name
Cells ==
  { [ip |-> AddrA, org_id |-> Org1, site_id |-> Site1, user_id |-> User1,
     password |-> Pass1, note |-> NoteX],
    [ip |-> AddrA, org_id |-> Org2, site_id |-> NaN, user_id |-> User2,
     password |-> Pass2, note |-> NoteX],
    [ip |-> AddrB, org_id |-> Org1, site_id |-> Site1, user_id |-> User2,
     password |-> Pass1, note |-> NoteX] }

LayOut(cols, cells) == [i \in 1..Len(cols) |-> cells[cols[i]]]

Tables ==
  {[columns |-> cols, rows |-> [i \in 1..Len(recs) |-> LayOut(cols, recs[i])]] :
      cols \in Layouts, recs \in SeqsUpTo(Cells, MaxRows)}

EmptyFrame == [columns |-> <<>>, rows |-> <<>>]

\* row[name]
Col(columns, row, name) == row[CHOOSE i \in 1..Len(columns) : columns[i] = name]

\* df.drop_duplicates(subset="ip", keep="first"): not what the program asks for
RECURSIVE KeepFirstFrom(_, _, _)
KeepFirstFrom(columns, rows, i) ==
  IF i > Len(rows) THEN <<>>
  ELSE IF \E j \in 1..(i - 1) :
            Col(columns, rows[j], "ip") = Col(columns, rows[i], "ip")
       THEN KeepFirstFrom(columns, rows, i + 1)
       ELSE <<rows[i]>> \o KeepFirstFrom(columns, rows, i + 1)

DropDuplicatesKeepFirst(frame) ==
  [columns |-> frame.columns,
   rows |-> KeepFirstFrom(frame.columns, frame.rows, 1)]

\* df.drop_duplicates(subset="ip", keep="last")
RECURSIVE KeepLastFrom(_, _, _)
KeepLastFrom(columns, rows, i) ==
  IF i > Len(rows) THEN <<>>
  ELSE IF \E j \in (i + 1)..Len(rows) :
            Col(columns, rows[j], "ip") = Col(columns, rows[i], "ip")
       THEN KeepLastFrom(columns, rows, i + 1)
       ELSE <<rows[i]>> \o KeepLastFrom(columns, rows, i + 1)

DropDuplicates(frame) ==
  [columns |-> frame.columns,
   rows |-> KeepLastFrom(frame.columns, frame.rows, 1)]

(***************************************************************************)
(* Python values that a task hands to the collector: either the tuple      *)
(* (ip, text) returned by worker, or a plain string.                       *)
(***************************************************************************)
PyTuple(ip, s) == [tuple |-> TRUE, ip |-> ip, s |-> s]
PyStr(s) == [tuple |-> FALSE, ip |-> <<>>, s |-> s]

\* v[1]: the second element of a tuple, the second character of a string
Index1(v) == IF v.tuple THEN v.s ELSE <<v.s[2]>>

(***************************************************************************)
(* results: a dict, kept as its entries in insertion order.                *)
(***************************************************************************)
Keys(d) == {d[i].key : i \in 1..Len(d)}

DictGet(d, k) == d[CHOOSE i \in 1..Len(d) : d[i].key = k].val

\* an assignment that drops the entries of the other keys
DictSetAlone(d, k, v) == <<[key |-> k, val |-> v]>>

DictSet(d, k, v) ==
  IF k \in Keys(d)
  THEN [i \in 1..Len(d) |-> IF d[i].key = k THEN [key |-> k, val |-> v] ELSE d[i]]
  ELSE Append(d, [key |-> k, val |-> v])

\* sorted(keys, reverse=True): the keys in descending order
RECURSIVE SortedDescending(_)
SortedDescending(keys) ==
  IF keys = {} THEN <<>>
  ELSE LET m == CHOOSE k \in keys : \A o \in keys \ {k} : StrLess(o, k)
       IN  <<m>> \o SortedDescending(keys \ {m})

\* sorted(keys)
RECURSIVE Sorted(_)
Sorted(keys) ==
  IF keys = {} THEN <<>>
  ELSE LET m == CHOOSE k \in keys : \A o \in keys \ {k} : StrLess(k, o)
       IN  <<m>> \o Sorted(keys \ {m})

(***************************************************************************)
(* fetch_mist_config                                                       *)
(***************************************************************************)
\* the URL requested for (org_id, site_id)
Url(org_id, site_id) ==
  BaseUrl \o OrgsPath \o org_id \o CmdPath \o
  (IF site_id # <<>> /\ site_id # NaN THEN SiteQuery \o site_id ELSE <<>>)

\* what requests.get can answer: raised says the call itself failed with
\* text as str(e); otherwise status and text are the response's, and ok says
\* that the body decodes to an object with a "cmd" entry, whose value is cmd
FetchResponses ==
  { [raised |-> TRUE,  status |-> 0,   text |-> NetErrText,  ok |-> FALSE, cmd |-> <<>>],
    [raised |-> FALSE, status |-> 403, text |-> HttpErrBody, ok |-> FALSE, cmd |-> <<>>],
    [raised |-> FALSE, status |-> 200, text |-> HttpErrBody, ok |-> FALSE, cmd |-> <<>>],
    [raised |-> FALSE, status |-> 200, text |-> BlobFull,    ok |-> TRUE,  cmd |-> BlobFull] }

\* the lines of cmd that do not contain the phone-home directive
RemovePhoneHome(lines) == SelectSeq(lines, LAMBDA l : ~Contains(l, PhoneHome))

\* the outcome of fetch_mist_config on response resp:
\*   kind "raise": an exception with str(e) = s leaves the function
\*   kind "str"  : the error string s is returned
\*   kind "list" : the list lines is returned
fetch_mist_config(resp, remove_phone_home) ==
  IF resp.raised
  THEN [kind |-> "raise", s |-> resp.text, lines |-> <<>>]
  ELSE IF resp.status = 200
  THEN IF ~resp.ok
       THEN [kind |-> "raise", s |-> JsonErrText, lines |-> <<>>]
       ELSE LET cmd == IF remove_phone_home
                       THEN Join(RemovePhoneHome(Split(resp.cmd)))
                       ELSE resp.cmd
            IN  [kind |-> "list", s |-> <<>>, lines |-> Split(cmd)]
  ELSE [kind |-> "str", s |-> FetchFailPrefix \o resp.text, lines |-> <<>>]

(***************************************************************************)
(* push_config                                                             *)
(***************************************************************************)
\* lines 105-108 without the test of the reply
PushReturnAlwaysOk(commit_result) == OkMsg

\* the value returned at lines 105-108 for the reply kept in commit_result
PushReturn(commit_result) == IF commit_result THEN OkMsg ELSE CommitFailedMsg

\* the value returned by the except clause at line 110
PushExcept(ip, e) == PushFailPrefix \o ip \o ReasonInfix \o e

(***************************************************************************)
(* Credential resolution.                                                  *)
(***************************************************************************)
\* Python's None
None == <<"None">>

\* get_mist_api_key_from_env: the key, or None when ValueError is raised
get_mist_api_key_from_env(env) == env

\* get_mist_api_key_from_config: the key, or None when FileNotFoundError or
\* ValueError is raised
get_mist_api_key_from_config(ini) ==
  IF ini.exists /\ ini.api_key # None THEN ini.api_key ELSE None

\* the chain with the config file asked before the environment
ResolveApiKeyConfigFirst(env, ini, cli) ==
  IF get_mist_api_key_from_config(ini) # None
  THEN get_mist_api_key_from_config(ini)
  ELSE IF get_mist_api_key_from_env(env) # None
  THEN get_mist_api_key_from_env(env)
  ELSE IF cli # None /\ cli # <<>> THEN cli
  ELSE None

\* lines 148-159: the key main ends up with, None when no source resolves
ResolveApiKey(env, ini, cli) ==
  IF get_mist_api_key_from_env(env) # None
  THEN get_mist_api_key_from_env(env)
  ELSE IF get_mist_api_key_from_config(ini) # None
  THEN get_mist_api_key_from_config(ini)
  ELSE IF cli # None /\ cli # <<>> THEN cli
  ELSE None

(***************************************************************************)
(* State.                                                                  *)
(***************************************************************************)
VARIABLES
  args,             \* the parsed command line
  environ,          \* os.environ["MIST_API_KEY"], None when unset
  config_ini,       \* ~/.mist/config.ini
  pc,               \* where main is
  df,               \* the local frame of read_excel
  device_data,      \* main's table after read_excel
  mist_api_key,     \* main's resolved credential
  future,           \* the futures of the executor, in submission order
  future_to_device, \* the address main files each future under
  wrk,              \* the frame of worker/push_config of each task
  session,          \* the NETCONF session of each task
  io,               \* the requests each task made and the answers it got
  results,          \* main's results dict
  yielded,          \* the futures as_completed has handed to main
  stdout            \* what has been printed, each entry with its print line

vars == <<args, environ, config_ini, pc, df, device_data, mist_api_key, future,
          future_to_device, wrk, session, io, results, yielded, stdout>>

Out(line, text) == [src |-> line, text |-> text]

NoFrame ==
  [pc |-> "queued", org_id |-> <<>>, site_id |-> <<>>, ip |-> <<>>,
   user_id |-> <<>>, password |-> <<>>, config_commands |-> <<>>,
   commit_result |-> FALSE]

Pending == [state |-> "PENDING", exception |-> FALSE, value |-> PyStr(<<>>)]
Running == [state |-> "RUNNING", exception |-> FALSE, value |-> PyStr(<<>>)]
Returned(v) == [state |-> "FINISHED", exception |-> FALSE, value |-> v]
Raised(e) == [state |-> "FINISHED", exception |-> TRUE, value |-> PyStr(e)]

Ev(op, req, ans) ==
  [op |-> op, req |-> req, raised |-> ans.raised, status |-> ans.status,
   text |-> ans.text, ok |-> ans.ok]

\* what a NETCONF call can answer: it raises with str(e) = text, or it
\* returns a reply that holds an <ok/> node or none
RpcAnswers ==
  { [raised |-> FALSE, status |-> 0, text |-> <<>>, ok |-> TRUE],
    [raised |-> FALSE, status |-> 0, text |-> <<>>, ok |-> FALSE],
    [raised |-> TRUE,  status |-> 0, text |-> RpcErrText, ok |-> FALSE] }

\* connect and close_session return nothing the program looks at
PlainAnswers == {a \in RpcAnswers : a.raised \/ a.ok}

Tasks == 1..Len(future)

Init ==
  /\ args \in [max_threads : 1..MaxThreads, keep_phone_home : BOOLEAN,
               api_key : {None, KeyCli}]
  /\ environ \in {None, KeyEnv}
  /\ config_ini \in {[exists |-> FALSE, api_key |-> None],
                     [exists |-> TRUE, api_key |-> None],
                     [exists |-> TRUE, api_key |-> KeyCfg]}
  /\ pc = "dump_excel_file"
  /\ df = EmptyFrame
  /\ device_data = EmptyFrame
  /\ mist_api_key = None
  /\ future = <<>>
  /\ future_to_device = <<>>
  /\ wrk = <<>>
  /\ session = <<>>
  /\ io = <<>>
  /\ results = <<>>
  /\ yielded = {}
  /\ stdout = <<>>

(***************************************************************************)
(* main before dispatch.                                                   *)
(***************************************************************************)
\* line 132: dump_excel_file; the table it prints is not rendered
DumpExcelFile ==
  /\ pc = "dump_excel_file"
  /\ \E found \in BOOLEAN :
       IF found
       THEN /\ stdout' = Append(stdout, Out(30, <<>>))
            /\ pc' = "read_excel"
       ELSE /\ stdout' = Append(stdout,
                 Out(33, DumpNotFoundPrefix \o FileName \o DumpNotFoundSuffix))
            /\ pc' = "exited"
  /\ UNCHANGED <<args, environ, config_ini, df, device_data, mist_api_key,
                 future, future_to_device, wrk, session, io, results, yielded>>

\* lines 135-141 with line 38: pd.read_excel
ReadExcel ==
  /\ pc = "read_excel"
  /\ \/ /\ stdout' = Append(stdout,
               Out(137, CannotOpenPrefix \o FileName \o CannotOpenSuffix))
        /\ pc' = "returned"
        /\ df' = df
     \/ /\ stdout' = Append(stdout, Out(140, ErrorPrefix \o BadFileText))
        /\ pc' = "returned"
        /\ df' = df
     \/ /\ \E table \in Tables : df' = table
        /\ pc' = "drop_duplicates"
        /\ stdout' = stdout
  /\ UNCHANGED <<args, environ, config_ini, device_data, mist_api_key, future,
                 future_to_device, wrk, session, io, results, yielded>>

\* line 39 and the return into line 135; a missing ip column raises KeyError,
\* which line 139 catches
ReadExcelReturn ==
  /\ pc = "drop_duplicates"
  /\ IF "ip" \in Range(df.columns)
     THEN /\ device_data' = DropDuplicates(df)
          /\ pc' = "required_fields"
          /\ stdout' = stdout
     ELSE /\ device_data' = device_data
          /\ pc' = "returned"
          /\ stdout' = Append(stdout, Out(140, ErrorPrefix \o NoIpColumnText))
  /\ df' = EmptyFrame
  /\ UNCHANGED <<args, environ, config_ini, mist_api_key, future,
                 future_to_device, wrk, session, io, results, yielded>>

\* lines 143-146
CheckRequiredFields ==
  /\ pc = "required_fields"
  /\ IF required_fields \subseteq Range(device_data.columns)
     THEN /\ pc' = "api_key"
          /\ stdout' = stdout
     ELSE /\ pc' = "returned"
          /\ stdout' = Append(stdout, Out(145, InvalidFormatMsg))
  /\ UNCHANGED <<args, environ, config_ini, df, device_data, mist_api_key,
                 future, future_to_device, wrk, session, io, results, yielded>>

\* lines 148-159 without the return of line 159: main goes on with no key
GetApiKeyNoReturn ==
  /\ pc = "api_key"
  /\ mist_api_key' = ResolveApiKey(environ, config_ini, args.api_key)
  /\ pc' = "submit"
  /\ stdout' = IF mist_api_key' # None THEN stdout
               ELSE Append(stdout, Out(158, NoKeyMsg))
  /\ UNCHANGED <<args, environ, config_ini, df, device_data, future,
                 future_to_device, wrk, session, io, results, yielded>>

\* lines 148-159
GetApiKey ==
  /\ pc = "api_key"
  /\ mist_api_key' = ResolveApiKey(environ, config_ini, args.api_key)
  /\ IF mist_api_key' # None
     THEN /\ pc' = "submit"
          /\ stdout' = stdout
     ELSE /\ pc' = "returned"
          /\ stdout' = Append(stdout, Out(158, NoKeyMsg))
  /\ UNCHANGED <<args, environ, config_ini, df, device_data, future,
                 future_to_device, wrk, session, io, results, yielded>>

(***************************************************************************)
(* Dispatch: lines 161-164.                                                *)
(***************************************************************************)
\* row["org_id"]: filing the futures under a column that is no unique key
DeviceKeyByOrg(columns, row) == Col(columns, row, "org_id")

\* row["ip"], the key of future_to_device
DeviceKey(columns, row) == Col(columns, row, "ip")

\* one iteration of the dict comprehension: executor.submit(worker, ...)
Submit ==
  /\ pc = "submit"
  /\ Len(future) < Len(device_data.rows)
  /\ LET row == device_data.rows[Len(future) + 1]
     IN  /\ future' = Append(future, Pending)
         /\ future_to_device' =
              Append(future_to_device, DeviceKey(device_data.columns, row))
         /\ wrk' = Append(wrk, NoFrame)
         /\ session' = Append(session, "none")
         /\ io' = Append(io, <<>>)
  /\ UNCHANGED <<args, environ, config_ini, pc, df, device_data, mist_api_key,
                 results, yielded, stdout>>

\* the comprehension is exhausted; line 166
EndSubmit ==
  /\ pc = "submit"
  /\ Len(future) = Len(device_data.rows)
  /\ pc' = "as_completed"
  /\ UNCHANGED <<args, environ, config_ini, df, device_data, mist_api_key,
                 future, future_to_device, wrk, session, io, results, yielded,
                 stdout>>

(***************************************************************************)
(* The pool's threads: worker, fetch_mist_config and push_config.          *)
(***************************************************************************)
Finish(i, f) ==
  /\ future' = [future EXCEPT ![i] = f]
  /\ wrk' = [wrk EXCEPT ![i].pc = "done"]

\* a thread of the pool is idle or can still be created
SlotFree ==
  Cardinality({j \in Tasks : future[j].state = "RUNNING"}) < args.max_threads

\* a pool thread takes the oldest queued work item and runs worker up to its
\* first blocking call; line 114 unpacks the row by position
Start(i) ==
  /\ pc \in {"submit", "as_completed"}
  /\ future[i].state = "PENDING"
  /\ \A j \in 1..(i - 1) : future[j].state # "PENDING"
  /\ SlotFree
  /\ LET device_info == device_data.rows[i]
     IN  IF Len(device_info) = 5
         THEN /\ future' = [future EXCEPT ![i] = Running]
              /\ wrk' = [wrk EXCEPT ![i] =
                   [NoFrame EXCEPT !.pc = "get",
                                   !.org_id = device_info[1],
                                   !.site_id = device_info[2],
                                   !.ip = device_info[3],
                                   !.user_id = device_info[4],
                                   !.password = device_info[5]]]
         ELSE Finish(i, Raised(UnpackErrText))
  /\ UNCHANGED <<args, environ, config_ini, pc, df, device_data, mist_api_key,
                 future_to_device, session, io, results, yielded, stdout>>

\* a worker that never takes the early return of line 117
IsErrorMessageNever(r) == FALSE

\* line 116: fetch_mist_config handed back an error message
IsErrorMessage(r) == r.kind = "str"

\* line 115, lines 42-62 and the branch at line 116, for an answer out of
\* responses
FetchFrom(i, responses) ==
  /\ wrk[i].pc = "get"
  /\ \E resp \in responses :
       LET r == fetch_mist_config(resp, ~args.keep_phone_home)
           req == <<Url(wrk[i].org_id, wrk[i].site_id),
                    TokenPrefix \o mist_api_key>>
       IN  /\ io' = [io EXCEPT ![i] = Append(@, Ev("get", req, resp))]
           /\ IF r.kind = "raise"
              THEN Finish(i, Raised(r.s))
              ELSE IF IsErrorMessage(r)
              THEN Finish(i, Returned(PyTuple(wrk[i].ip, r.s)))
              ELSE /\ wrk' = [wrk EXCEPT ![i].pc = "connect",
                                         ![i].config_commands = r.lines]
                   /\ future' = future
  /\ UNCHANGED <<args, environ, config_ini, pc, df, device_data, mist_api_key,
                 future_to_device, session, results, yielded, stdout>>

Fetch(i) == FetchFrom(i, FetchResponses)

\* the except clause of push_config, lines 109-110, reached from step op
PushFails(i, e) ==
  Finish(i, Returned(PyTuple(wrk[i].ip, PushExcept(wrk[i].ip, e))))

\* lines 90-99: manager.connect
Connect(i) ==
  /\ wrk[i].pc = "connect"
  /\ \E ans \in PlainAnswers :
       /\ io' = [io EXCEPT ![i] = Append(@,
            Ev("connect", <<wrk[i].ip, wrk[i].user_id, wrk[i].password>>, ans))]
       /\ IF ans.raised
          THEN /\ PushFails(i, ans.text)
               /\ session' = session
          ELSE /\ session' = [session EXCEPT ![i] = "open"]
               /\ wrk' = [wrk EXCEPT ![i].pc = "load"]
               /\ future' = future
  /\ UNCHANGED <<args, environ, config_ini, pc, df, device_data, mist_api_key,
                 future_to_device, results, yielded, stdout>>

\* line 101: commit_result = m.load_configuration(...)
Load(i) ==
  /\ wrk[i].pc = "load"
  /\ \E ans \in RpcAnswers :
       /\ io' = [io EXCEPT ![i] = Append(@,
            Ev("load_configuration", wrk[i].config_commands, ans))]
       /\ IF ans.raised
          THEN PushFails(i, ans.text)
          ELSE /\ wrk' = [wrk EXCEPT ![i].pc = "commit",
                                     ![i].commit_result = ans.ok]
               /\ future' = future
  /\ UNCHANGED <<args, environ, config_ini, pc, df, device_data, mist_api_key,
                 future_to_device, session, results, yielded, stdout>>

\* line 102: m.commit(), whose reply is dropped
Commit(i) ==
  /\ wrk[i].pc = "commit"
  /\ \E ans \in RpcAnswers :
       /\ io' = [io EXCEPT ![i] = Append(@, Ev("commit", <<>>, ans))]
       /\ IF ans.raised
          THEN PushFails(i, ans.text)
          ELSE /\ wrk' = [wrk EXCEPT ![i].pc = "close"]
               /\ future' = future
  /\ UNCHANGED <<args, environ, config_ini, pc, df, device_data, mist_api_key,
                 future_to_device, session, results, yielded, stdout>>

\* lines 103-108: m.close_session() and the return; when close_session
\* raises, nothing has torn the session down
Close(i) ==
  /\ wrk[i].pc = "close"
  /\ \E ans \in PlainAnswers :
       /\ io' = [io EXCEPT ![i] = Append(@, Ev("close_session", <<>>, ans))]
       /\ IF ans.raised
          THEN /\ PushFails(i, ans.text)
               /\ session' = session
          ELSE /\ session' = [session EXCEPT ![i] = "closed"]
               /\ Finish(i, Returned(PyTuple(wrk[i].ip,
                                             PushReturn(wrk[i].commit_result))))
  /\ UNCHANGED <<args, environ, config_ini, pc, df, device_data, mist_api_key,
                 future_to_device, results, yielded, stdout>>

(***************************************************************************)
(* Collection and report: lines 166-176.                                   *)
(***************************************************************************)
\* lines 169-172: the value main stores for a finished future
CollectResult(f) ==
  IF f.exception THEN PyStr(ErrorPrefix \o f.value.s) ELSE f.value

\* the loop without the try of lines 169-172: the exception of a future
\* leaves main through future.result()
CollectAbort(i) ==
  /\ pc = "as_completed"
  /\ i \notin yielded
  /\ future[i].state = "FINISHED"
  /\ IF future[i].exception
     THEN /\ pc' = "returned"
          /\ UNCHANGED <<results, yielded>>
     ELSE /\ pc' = pc
          /\ yielded' = yielded \cup {i}
          /\ results' = DictSet(results, future_to_device[i], future[i].value)
  /\ UNCHANGED <<args, environ, config_ini, df, device_data, mist_api_key,
                 future, future_to_device, wrk, session, io, stdout>>

\* one iteration of the as_completed loop, lines 167-173
Collect(i) ==
  /\ pc = "as_completed"
  /\ i \notin yielded
  /\ future[i].state = "FINISHED"
  /\ yielded' = yielded \cup {i}
  /\ results' = DictSet(results, future_to_device[i], CollectResult(future[i]))
  /\ UNCHANGED <<args, environ, config_ini, pc, df, device_data, mist_api_key,
                 future, future_to_device, wrk, session, io, stdout>>

\* as_completed is exhausted and the with block is left
EndCollect ==
  /\ pc = "as_completed"
  /\ yielded = Tasks
  /\ pc' = "print"
  /\ UNCHANGED <<args, environ, config_ini, df, device_data, mist_api_key,
                 future, future_to_device, wrk, session, io, results, yielded,
                 stdout>>

\* the report lines printed so far
Report == SelectSeq(stdout, LAMBDA o : o.src = 176)

\* line 176: f"{ip}: {results[ip][1]}"
ReportLine(ip, v) == ip \o ColonSpace \o Index1(v)

\* one iteration of the loop at lines 175-176
PrintLine ==
  /\ pc = "print"
  /\ Len(Report) < Len(results)
  /\ LET ip == Sorted(Keys(results))[Len(Report) + 1]
     IN  stdout' = Append(stdout, Out(176, ReportLine(ip, DictGet(results, ip))))
  /\ UNCHANGED <<args, environ, config_ini, pc, df, device_data, mist_api_key,
                 future, future_to_device, wrk, session, io, results, yielded>>

\* main returns
EndPrint ==
  /\ pc = "print"
  /\ Len(Report) = Len(results)
  /\ pc' = "returned"
  /\ UNCHANGED <<args, environ, config_ini, df, device_data, mist_api_key,
                 future, future_to_device, wrk, session, io, results, yielded,
                 stdout>>

Next ==
  \/ DumpExcelFile
  \/ ReadExcel
  \/ ReadExcelReturn
  \/ CheckRequiredFields
  \/ GetApiKey
  \/ Submit
  \/ EndSubmit
  \/ \E i \in Tasks : Start(i)
  \/ \E i \in Tasks : Fetch(i)
  \/ \E i \in Tasks : Connect(i)
  \/ \E i \in Tasks : Load(i)
  \/ \E i \in Tasks : Commit(i)
  \/ \E i \in Tasks : Close(i)
  \/ \E i \in Tasks : Collect(i)
  \/ EndCollect
  \/ PrintLine
  \/ EndPrint

Spec == Init /\ [][Next]_vars

TypeOK ==
  /\ pc \in {"dump_excel_file", "read_excel", "drop_duplicates",
             "required_fields", "api_key", "submit", "as_completed", "print",
             "returned", "exited"}
  /\ Len(future) = Len(wrk) /\ Len(future) = Len(session)
  /\ Len(future) = Len(io) /\ Len(future) = Len(future_to_device)
  /\ yielded \subseteq Tasks

(***************************************************************************)
(* Vocabulary of the properties.                                           *)
(***************************************************************************)
\* the run got past every pre-dispatch check
Validated == mist_api_key # None

\* the addresses of a table
FrameAddrs(frame) ==
  {Col(frame.columns, frame.rows[k], "ip") : k \in 1..Len(frame.rows)}

\* the report lines that start with "<a>: "
LinesFor(a) == {k \in 1..Len(Report) : IsPrefix(a \o ColonSpace, Report[k].text)}

\* the requests of task i to operation op
Calls(i, op) == {k \in 1..Len(io[i]) : io[i][k].op = op}

OpenSessions == {i \in Tasks : session[i] = "open"}

\* the table has the five columns in the order the program unpacks them
PlainTable == device_data.columns = ColsCanonical

\* C1: when a run that passed the pre-dispatch checks ends, the report has
\* exactly one line for every distinct address of the input table, whatever
\* the tasks did: no address is missing and none is reported twice.
C1_OneEntryPerAddress ==
  [][ /\ (pc = "drop_duplicates" /\ pc' = "required_fields")
           => FrameAddrs(device_data') = FrameAddrs(df)
      /\ (pc' = "returned" /\ Validated')
           => /\ Len(Report') = Cardinality(FrameAddrs(device_data'))
              /\ \A a \in FrameAddrs(device_data') :
                    Cardinality(LinesFor(a)') = 1 ]_vars

\* a finished run of two devices, one whose task raised and one that got OK
C1_Witness ==
  /\ pc = "returned" /\ Validated
  /\ Len(Report) = 2
  /\ \E i, j \in Tasks :
        /\ future[i].exception
        /\ future[j].value = PyTuple(future_to_device[j], OkMsg)

\* C2: with --max-threads K and more than K devices, at most K device
\* sessions are open at any time (open: connected and not yet closed).
C2_AtMostKSessionsOpen ==
  (PlainTable /\ Len(device_data.rows) > args.max_threads)
     => Cardinality(OpenSessions) <= args.max_threads

\* C3: once push_config has returned, the session it opened is closed.
C3_SessionClosedOnReturn ==
  PlainTable => \A i \in Tasks : wrk[i].pc = "done" => session[i] # "open"

\* what the report must hold for task i, told from nothing but the task's
\* own row and the answers the task itself received
OwnOutcome(i) ==
  LET row == device_data.rows[i]
      log == io[i]
      failed == {k \in 2..Len(log) : log[k].raised}
  IN  IF Len(row) # 5 THEN PyStr(ErrorPrefix \o UnpackErrText)
      ELSE IF log[1].raised THEN PyStr(ErrorPrefix \o log[1].text)
      ELSE IF log[1].status # 200
           THEN PyTuple(row[3], FetchFailPrefix \o log[1].text)
      ELSE IF ~log[1].ok THEN PyStr(ErrorPrefix \o JsonErrText)
      ELSE IF failed # {}
           THEN PyTuple(row[3], PushExcept(row[3],
                   log[CHOOSE k \in failed : TRUE].text))
      ELSE PyTuple(row[3], PushReturn(log[3].ok))

\* whether task i must have tried to connect, told from its own row and the
\* answer to its own fetch
OwnAttempt(i) ==
  /\ Len(device_data.rows[i]) = 5
  /\ io[i] # <<>>
  /\ ~io[i][1].raised /\ io[i][1].status = 200 /\ io[i][1].ok

\* C4: the outcome reported for a device and whether a session to it is
\* attempted are a function of that device's own row and own fetch and push
\* answers, so nothing another device of the batch does can change them;
\* at the end of the run every device has its outcome in the results.
C4_OutcomeDependsOnOwnAnswersOnly ==
  /\ \A i \in yielded :
        /\ future_to_device[i] \in Keys(results)
        /\ DictGet(results, future_to_device[i]) = OwnOutcome(i)
  /\ \A i \in Tasks :
        /\ wrk[i].pc \in {"queued", "get", "connect"} => Calls(i, "connect") = {}
        /\ wrk[i].pc \in {"load", "commit", "close", "done"}
              => ((Calls(i, "connect") # {}) <=> OwnAttempt(i))
  /\ (pc \in {"print", "returned"} /\ Validated) => yielded = Tasks

\* two devices are reported: the task of one raised, the other one was
\* connected to and got its own push result
C4_Witness ==
  /\ pc = "returned" /\ Validated
  /\ \E i, j \in Tasks :
        /\ i # j
        /\ future[i].exception
        /\ Calls(i, "connect") = {}
        /\ Calls(j, "connect") # {}
        /\ DictGet(results, future_to_device[j])
              = PyTuple(future_to_device[j], CommitFailedMsg)

\* C5: worker returns a value on every execution; no future finishes with an
\* exception.
C5_NoFutureRaises ==
  PlainTable
     => \A i \in Tasks : future[i].state = "FINISHED" => ~future[i].exception

\* the request of task i failed: the call raised, or the 200 body is unusable
RequestFailed(i) ==
  /\ io[i] # <<>>
  /\ \/ io[i][1].raised
     \/ io[i][1].status = 200 /\ ~io[i][1].ok

\* str(e) of a failed request
RequestErrText(i) == IF io[i][1].raised THEN io[i][1].text ELSE JsonErrText

\* C6: when the request itself fails, fetch_mist_config still returns a
\* fetch-error value: worker returns (ip, message) where message is a
\* fetch-failure message that carries the upstream error text.
C6_RequestFailureIsFetchFailed ==
  \A i \in Tasks :
     (PlainTable /\ RequestFailed(i))
        => /\ future[i].state = "FINISHED"
           /\ ~future[i].exception
           /\ future[i].value.tuple
           /\ IsPrefix(FetchFailPrefix, future[i].value.s)
           /\ Contains(future[i].value.s, RequestErrText(i))

\* the full message of an outcome
FullMessage(v) == v.s

\* C7: every report line is "<address>: <message>" with the device's full
\* outcome message, also when the message is the "Error: <exception text>"
\* that main builds for a future that raised.
C7_LineShowsFullMessage ==
  PlainTable => \A k \in 1..Len(Report) :
     \E a \in Keys(results) :
        Report[k].text = a \o ColonSpace \o FullMessage(DictGet(results, a))

\* task i got an error value back from fetch_mist_config
FetchReturnedError(i) ==
  /\ io[i] # <<>>
  /\ ~io[i][1].raised /\ io[i][1].status # 200

\* C8: a task connects only after its fetch returned a command list; when
\* fetch returns an error value the task makes no connection at all, ends
\* with the fetch error as its outcome, that message is no push message, and
\* it is what the results hold for the device.
C8_NoConnectWithoutCommands ==
  \A i \in Tasks :
     /\ (Calls(i, "connect") # {} \/ session[i] # "none")
           => /\ io[i][1].op = "get"
              /\ ~io[i][1].raised /\ io[i][1].status = 200 /\ io[i][1].ok
     /\ FetchReturnedError(i)
           => /\ Calls(i, "connect") = {}
              /\ session[i] = "none"
              /\ future[i] = Returned(PyTuple(wrk[i].ip,
                                FetchFailPrefix \o io[i][1].text))
              /\ ~IsPrefix(ErrorPrefix, future[i].value.s)
              /\ future[i].value.s # OkMsg
              /\ i \in yielded
                   => DictGet(results, future_to_device[i]) = future[i].value
              /\ \A k \in LinesFor(future_to_device[i]) :
                    Report[k].text = future_to_device[i] \o ColonSpace \o
                                     FetchFailPrefix \o io[i][1].text

\* a device whose fetch got a non-200 answer is reported with the fetch
\* error and was never connected to, while another device was pushed to
C8_Witness ==
  \E i, j \in Tasks :
     /\ FetchReturnedError(i)
     /\ i \in yielded
     /\ LinesFor(future_to_device[i]) # {}
     /\ Calls(i, "connect") = {}
     /\ Calls(j, "commit") # {}

\* C9: push_config returns "OK" only if the reply to commit holds the
\* success marker.
C9_OkOnlyIfCommitReplyOk ==
  \A i \in Tasks :
     (PlainTable /\ future[i].state = "FINISHED" /\ ~future[i].exception
        /\ future[i].value.s = OkMsg)
        => \E k \in Calls(i, "commit") : io[i][k].ok

\* the rows of a table that hold address a
RowsOf(frame, a) ==
  {k \in 1..Len(frame.rows) : Col(frame.columns, frame.rows[k], "ip") = a}

Last(S) == CHOOSE k \in S : \A o \in S : o <= k

\* out keeps, for every address of frame, the last row with that address and
\* no other row
KeepsLast(frame, out) ==
  /\ out.columns = frame.columns
  /\ \A a \in FrameAddrs(frame) :
        /\ Cardinality(RowsOf(out, a)) = 1
        /\ \A k \in RowsOf(out, a) :
              out.rows[k] = frame.rows[Last(RowsOf(frame, a))]
  /\ FrameAddrs(out) = FrameAddrs(frame)

\* the cells worker unpacked for task i
Unpacked(i) ==
  <<wrk[i].org_id, wrk[i].site_id, wrk[i].ip, wrk[i].user_id, wrk[i].password>>

\* every task belongs to one row of device_data, is filed under that row's
\* address, shares its address with no other task, and runs on the cells of
\* that row
OneTaskPerRow ==
  /\ Len(future) <= Len(device_data.rows)
  /\ (pc \in {"as_completed", "print", "returned"} /\ Validated)
        => Len(future) = Len(device_data.rows)
  /\ \A i \in Tasks :
        /\ future_to_device[i]
              = Col(device_data.columns, device_data.rows[i], "ip")
        /\ \A j \in Tasks : j # i => future_to_device[j] # future_to_device[i]
        /\ (wrk[i].pc # "queued" /\ Len(device_data.rows[i]) = 5)
              => Unpacked(i) = device_data.rows[i]

\* at the end the report has one line per task, showing what main collected
\* from that task's future
OneLinePerTask ==
  (pc = "returned" /\ Validated)
     => \A i \in Tasks :
           /\ Cardinality(LinesFor(future_to_device[i])) = 1
           /\ DictGet(results, future_to_device[i]) = CollectResult(future[i])
           /\ \A k \in LinesFor(future_to_device[i]) :
                 Report[k].text = ReportLine(future_to_device[i],
                                             CollectResult(future[i]))

\* C10: of the input rows that share an address only the last survives
\* read_excel; exactly one task is dispatched for the address, it runs on the
\* cells of that last row, and the report has a single line for the address,
\* holding that task's outcome.
C10_LastDuplicateWins ==
  [][ /\ (pc = "drop_duplicates" /\ pc' = "required_fields")
           => KeepsLast(df, device_data')
      /\ OneTaskPerRow'
      /\ OneLinePerTask' ]_vars

\* the table just read has three rows, two of them for one address with
\* different cells, the later one between them and the end of the table
C10_Witness ==
  /\ pc = "drop_duplicates"
  /\ df.columns = ColsCanonical
  /\ Len(df.rows) = 3
  /\ df.rows[1][3] = df.rows[2][3]
  /\ df.rows[1] # df.rows[2]
  /\ df.rows[3][3] # df.rows[1][3]

\* the fatal messages of main and dump_excel_file that are on stdout
ErrorLines == SelectSeq(stdout, LAMBDA o : o.src \in {33, 137, 140, 145, 158})

\* no task exists and no device or cloud request was made
NothingDispatched ==
  /\ future = <<>> /\ future_to_device = <<>> /\ wrk = <<>>
  /\ io = <<>> /\ session = <<>> /\ results = <<>>

\* C11: when a required column is missing or no API key resolves, the run
\* ends after one error message with no task submitted, no fetch request, no
\* device connection and no report line; and a task exists only once the
\* required columns were found and the credential was resolved.
C11_FatalBeforeDispatch ==
  /\ (pc \in {"api_key", "submit", "as_completed", "print"} \/ Validated)
        => required_fields \subseteq Range(device_data.columns)
  /\ (pc \in {"submit", "as_completed", "print"} \/ ~NothingDispatched)
        => /\ Validated
           /\ ResolveApiKey(environ, config_ini, args.api_key) # None
  /\ ~Validated => /\ NothingDispatched
                   /\ Report = <<>>
                   /\ Len(ErrorLines) <= 1
  /\ (pc = "returned" /\ ~Validated) => Len(ErrorLines) = 1
  /\ (pc = "returned" /\ ~Validated
        /\ required_fields \subseteq Range(device_data.columns))
        => /\ ResolveApiKey(environ, config_ini, args.api_key) = None
           /\ ErrorLines = <<Out(158, NoKeyMsg)>>

\* a run that ended on the missing-column message, and nothing was dispatched
C11_Witness ==
  /\ pc = "returned"
  /\ device_data.columns = ColsNoPass
  /\ ErrorLines = <<Out(145, InvalidFormatMsg)>>
  /\ NothingDispatched

\* the address a report line starts with
LineAddr(k) == CHOOSE a \in Addrs : IsPrefix(a \o ColonSpace, Report[k].text)

\* C12: a report line is printed only when every dispatched task has finished
\* and its result has been collected, and the lines are in ascending
\* lexicographic order of address whatever the order of completion.
C12_ReportAfterAllSorted ==
  Report # <<>>
     => /\ Len(future) = Len(device_data.rows)
        /\ \A i \in Tasks : future[i].state = "FINISHED"
        /\ yielded = Tasks
        /\ Len(results) = Len(future)
        /\ \A k \in 1..Len(Report) :
              \E a \in Keys(results) : IsPrefix(a \o ColonSpace, Report[k].text)
        /\ \A k, l \in 1..Len(Report) :
              k < l => StrLess(LineAddr(k), LineAddr(l))

\* both lines are out, and the device printed first was collected last
C12_Witness ==
  /\ Len(Report) = 2
  /\ Len(results) = 2
  /\ IsPrefix(results[2].key \o ColonSpace, Report[1].text)
  /\ IsPrefix(results[1].key \o ColonSpace, Report[2].text)

(***************************************************************************)
(* Progress.  Threads are scheduled fairly, and every NETCONF call returns *)
(* or raises: connect is given timeout=60 and the manager applies it to    *)
(* every RPC.  requests.get at line 54 is called without a timeout, so     *)
(* nothing in the program makes a request that is never answered end: no   *)
(* fairness is assumed of Fetch.                                           *)
(***************************************************************************)
FairSpec ==
  /\ Spec
  /\ WF_vars(DumpExcelFile)
  /\ WF_vars(ReadExcel)
  /\ WF_vars(ReadExcelReturn)
  /\ WF_vars(CheckRequiredFields)
  /\ WF_vars(GetApiKey)
  /\ WF_vars(Submit)
  /\ WF_vars(EndSubmit)
  /\ WF_vars(\E i \in Tasks : Start(i))
  /\ WF_vars(\E i \in Tasks : Connect(i))
  /\ WF_vars(\E i \in Tasks : Load(i))
  /\ WF_vars(\E i \in Tasks : Commit(i))
  /\ WF_vars(\E i \in Tasks : Close(i))
  /\ WF_vars(\E i \in Tasks : Collect(i))
  /\ WF_vars(EndCollect)
  /\ WF_vars(PrintLine)
  /\ WF_vars(EndPrint)

\* main has returned with one report line per dispatched device
ReportPrinted ==
  /\ pc = "returned"
  /\ \A i \in Tasks : future[i].state = "FINISHED"
  /\ Len(Report) = Len(device_data.rows)

\* C13: every run that passes the pre-dispatch checks eventually has every
\* task at a terminal outcome and its report printed.
C13_EventuallyReports == Validated ~> ReportPrinted

(***************************************************************************)
(* fetch_mist_config on its own: one worker that has sent its request, and *)
(* a cloud API that answers 200 with any command blob of a few lines.      *)
(***************************************************************************)
\* the most lines in a command blob
MaxLines == 3

\* 'set a'
LineSetA == <<"s","e","t"," ","a">>

\* 'set x delete system phone-home y'
LinePhoneHomeInside ==
  <<"s","e","t"," ","x"," ">> \o PhoneHome \o <<" ","y">>

BlobLines == {<<>>, LineSetA, PhoneHome, LinePhoneHomeInside}

Blobs == {Join(ls) : ls \in SeqsUpTo(BlobLines, MaxLines)}

BlobResponses ==
  {[raised |-> FALSE, status |-> 200, text |-> b, ok |-> TRUE, cmd |-> b] :
      b \in Blobs}

FetchBlob(i) == FetchFrom(i, BlobResponses)

\* main is collecting, its one task is blocked in requests.get
InitFetch ==
  /\ args \in [max_threads : {1}, keep_phone_home : BOOLEAN, api_key : {None}]
  /\ environ = KeyEnv
  /\ config_ini = [exists |-> FALSE, api_key |-> None]
  /\ pc = "as_completed"
  /\ df = EmptyFrame
  /\ device_data = [columns |-> ColsCanonical,
                    rows |-> <<<<Org1, Site1, AddrA, User1, Pass1>>>>]
  /\ mist_api_key = KeyEnv
  /\ future = <<Running>>
  /\ future_to_device = <<AddrA>>
  /\ wrk = <<[NoFrame EXCEPT !.pc = "get", !.org_id = Org1, !.site_id = Site1,
                             !.ip = AddrA, !.user_id = User1,
                             !.password = Pass1]>>
  /\ session = <<"none">>
  /\ io = << <<>> >>
  /\ results = <<>>
  /\ yielded = {}
  /\ stdout = <<Out(30, <<>>)>>

NextFetch == \E i \in Tasks : FetchBlob(i)

FetchSpec == InitFetch /\ [][NextFetch]_vars

\* the command blob task i was answered with
BlobOf(i) == io[i][1].text

\* C14: for a blob answered with 200, fetch_mist_config with filtering returns
\* exactly the blob's lines that do not contain "delete system phone-home",
\* in their order, and without filtering all of the blob's lines.
C14_FilteredLinesExactly ==
  \A i \in Tasks :
     wrk[i].pc = "connect"
        => wrk[i].config_commands =
             IF args.keep_phone_home
             THEN Split(BlobOf(i))
             ELSE SelectSeq(Split(BlobOf(i)), LAMBDA l : ~Contains(l, PhoneHome))

\* C15: for an empty blob answered with 200, fetch_mist_config returns a
\* command sequence of length 0, with and without filtering.
C15_EmptyBlobEmptySequence ==
  \A i \in Tasks :
     (wrk[i].pc = "connect" /\ BlobOf(i) = BlobEmpty)
        => Len(wrk[i].config_commands) = 0

\* the config file holds a key
ConfigHasKey == config_ini.exists /\ config_ini.api_key # None

\* C16: the credential of the run is the environment value whenever there
\* is one, whatever the config file and the command line hold; the config
\* file value only when the environment has none; the command line value only
\* when neither resolves; and every task's request carries that credential.
C16_CredentialPrecedence ==
  Validated
     => /\ environ # None => mist_api_key = environ
        /\ (environ = None /\ ConfigHasKey) => mist_api_key = config_ini.api_key
        /\ (environ = None /\ ~ConfigHasKey) => mist_api_key = args.api_key
        /\ \A i \in Tasks : \A k \in Calls(i, "get") :
              io[i][k].req[2] = TokenPrefix \o mist_api_key

\* all three sources hold a key and a request went out with the
\* environment's
C16_Witness ==
  /\ environ = KeyEnv /\ ConfigHasKey /\ args.api_key = KeyCli
  /\ \E i \in Tasks : \E k \in Calls(i, "get") :
        io[i][k].req[2] = TokenPrefix \o KeyEnv

\* task i got as far as push_config and push_config has returned
PushReturned(i) ==
  /\ future[i].state = "FINISHED" /\ ~future[i].exception
  /\ Calls(i, "connect") # {}

\* C17: every push-failure message of push_config includes the device
\* address, for an exception of connect, load, commit or close and for a
\* reply without the success marker.
C17_PushFailureNamesAddress ==
  \A i \in Tasks :
     (PlainTable /\ PushReturned(i) /\ future[i].value.s # OkMsg)
        => Contains(future[i].value.s, wrk[i].ip)

\* C18: results is written only by main's collection loop, never in a step
\* of a worker; every finished task's result is written exactly once, as a
\* new entry, and no entry written before is changed or dropped.
C18_SingleWriterNoLostUpdate ==
  [][ /\ (wrk' # wrk \/ future' # future \/ io' # io) => results' = results
      /\ results' # results
           => /\ pc = "as_completed"
              /\ \E i \in Tasks \ yielded :
                    /\ future[i].state = "FINISHED"
                    /\ yielded' = yielded \cup {i}
                    /\ results' = Append(results,
                          [key |-> future_to_device[i],
                           val |-> CollectResult(future[i])])
      /\ yielded' # yielded => Len(results') = Len(results) + 1
      /\ Len(results') = Cardinality(yielded')
      /\ \A i \in yielded' :
            DictGet(results', future_to_device[i]) = CollectResult(future[i])
    ]_vars

\* both results are stored, the task submitted second was written first
C18_Witness ==
  /\ yielded = {1, 2}
  /\ Len(results) = 2
  /\ results[1] = [key |-> future_to_device[2], val |-> CollectResult(future[2])]
  /\ results[2] = [key |-> future_to_device[1], val |-> CollectResult(future[1])]

\* operation op of task i was called and returned without an exception
Completed(i, op) == \E k \in Calls(i, op) : ~io[i][k].raised

\* the reply to load_configuration of task i held the success marker
LoadReplyOk(i) == \E k \in Calls(i, "load_configuration") : io[i][k].ok

\* the reply to commit of task i held the success marker
CommitReplyOk(i) == \E k \in Calls(i, "commit") : io[i][k].ok

C20_BindsByColumnName ==
  \A i \in Tasks :
     wrk[i].pc # "queued"
        => LET row == device_data.rows[i]
               cols == device_data.columns
           IN  /\ wrk[i].org_id = Col(cols, row, "org_id")
               /\ wrk[i].site_id = Col(cols, row, "site_id")
               /\ wrk[i].ip = Col(cols, row, "ip")
               /\ wrk[i].user_id = Col(cols, row, "user_id")
               /\ wrk[i].password = Col(cols, row, "password")
               /\ wrk[i].ip = future_to_device[i]
               /\ \A k \in Calls(i, "connect") :
                     io[i][k].req[1] = future_to_device[i]

====
